---- MODULE Spec2Model ----
(***************************************************************************)
(* Model of the two photo-labelling drivers:                               *)
(*   add_baby_age_to_photos.py   (the "age" driver)                        *)
(*   add_timestamp_to_photos.py  (the "timestamp" driver)                  *)
(*                                                                         *)
(* A string is a sequence of characters; a character is a one-character    *)
(* string, and a non-ASCII character is written by its code point          *)
(* ("U+0664" is ARABIC-INDIC DIGIT FOUR, "U+5929" is the CJK character for *)
(* "day").                                                                 *)
(***************************************************************************)
EXTENDS Integers, Sequences, FiniteSets, TLC

VARIABLES
    filename,       \* the filename handed to both extractors
    age_result,     \* outcome of the age driver's extract_date_from_filename
    ts_result,      \* outcome of the timestamp driver's extract_date_from_filename
    photo_date,     \* the datetime handed to calculate_age
    age,            \* calculate_age's locals and return value for photo_date
    later_date,     \* a second photo date, later than photo_date
    later_age,      \* calculate_age's locals and return value for later_date
    driver,         \* which driver runs process_photos
    image_files,    \* process_photos: the list of image file names
    idx,            \* process_photos: position of the for loop (next file)
    visits,         \* process_photos: how often each list position was visited
    success_count,  \* process_photos: success_count
    skip_count,     \* process_photos: skip_count
    pc              \* process_photos: "start", "loop", "summary", "empty", "raised"

vars == <<filename, age_result, ts_result, photo_date, age, later_date,
          later_age, driver, image_files, idx, visits, success_count,
          skip_count, pc>>

extractVars == <<filename, age_result, ts_result>>
ageVars == <<photo_date, age, later_date, later_age>>
batchVars == <<driver, image_files, idx, visits, success_count, skip_count, pc>>

(***************************************************************************)
(* Characters                                                              *)
(***************************************************************************)
AsciiDigits == {"0", "1", "2", "3", "4", "5", "6", "7", "8", "9"}

\* A decimal digit outside ASCII that the model's filenames use.
UnicodeDigits == {"U+0664"}

\* The regular expression class \d on a str pattern: any Unicode decimal digit.
IsDigit(c) == c \in AsciiDigits \cup UnicodeDigits

\* The character class [.\-_]
IsDelimiter(c) == c \in {".", "-", "_"}

\* The character class [2-9]
IsDigit2To9(c) == c \in {"2", "3", "4", "5", "6", "7", "8", "9"}

\* The value int() gives a decimal digit.
DigitVal(c) ==
    CASE c = "0" -> 0 [] c = "1" -> 1 [] c = "2" -> 2 [] c = "3" -> 3
      [] c = "4" -> 4 [] c = "5" -> 5 [] c = "6" -> 6 [] c = "7" -> 7
      [] c = "8" -> 8 [] c = "9" -> 9 [] c = "U+0664" -> 4

\* int(s) for a string of decimal digits.
RECURSIVE ToInt(_)
ToInt(s) ==
    IF s = <<>> THEN 0
    ELSE 10 * ToInt(SubSeq(s, 1, Len(s) - 1)) + DigitVal(s[Len(s)])

\* The ASCII digit of a value 0..9.
DigitChar(n) == <<"0", "1", "2", "3", "4", "5", "6", "7", "8", "9">>[n + 1]

\* str(n) for an integer, as f"{n}" renders it.
RECURSIVE ToStr(_)
ToStr(n) ==
    IF n < 0 THEN <<"-">> \o ToStr(-n)
    ELSE IF n < 10 THEN <<DigitChar(n)>>
    ELSE ToStr(n \div 10) \o ToStr(n % 10)

MinOf(S) == CHOOSE x \in S : \A y \in S : x <= y

(***************************************************************************)
(* os.path.splitext(filename)[0] for a name without path separators: the   *)
(* name up to its last dot, unless nothing but dots precedes that dot.     *)
(***************************************************************************)
splitext_root(p) ==
    LET dots == {i \in 1..Len(p) : p[i] = "."}
    IN  IF dots = {} THEN p
        ELSE LET dotIndex == CHOOSE i \in dots : \A j \in dots : j <= i
             IN  IF \E k \in 1..(dotIndex - 1) : p[k] # "."
                 THEN SubSeq(p, 1, dotIndex - 1)
                 ELSE p

(***************************************************************************)
(* The two regular expressions, searched leftmost-first as re.search does. *)
(* A search returns the 1-based start of the match, 0 when there is none.  *)
(***************************************************************************)
\* (\d{4})[.\-_](\d{2})[.\-_](\d{2}) matches at position i
MatchDelimitedAt(s, i) ==
    /\ i >= 1
    /\ i + 9 <= Len(s)
    /\ \A k \in {0, 1, 2, 3, 5, 6, 8, 9} : IsDigit(s[i + k])
    /\ IsDelimiter(s[i + 4])
    /\ IsDelimiter(s[i + 7])

SearchDelimited(s) ==
    LET M == {i \in 1..Len(s) : MatchDelimitedAt(s, i)}
    IN  IF M = {} THEN 0 ELSE MinOf(M)

\* (20[2-9]\d)(\d{4}) matches at position i
MatchContiguousAt(s, i) ==
    /\ i >= 1
    /\ i + 7 <= Len(s)
    /\ s[i] = "2"
    /\ s[i + 1] = "0"
    /\ IsDigit2To9(s[i + 2])
    /\ \A k \in 3..7 : IsDigit(s[i + k])

SearchContiguous(s) ==
    LET M == {i \in 1..Len(s) : MatchContiguousAt(s, i)}
    IN  IF M = {} THEN 0 ELSE MinOf(M)

(***************************************************************************)
(* _is_valid_date (the same in both drivers), on the integers int() gives. *)
(* The matched groups are strings of decimal digits, so int() never raises *)
(* and the except branch is never taken.                                   *)
(***************************************************************************)
YearMin == 2000
YearMax == 2099
MonthMax == 12
DayMax == 31

is_valid_date_wide_month(y, m, d) ==
    ~ (y < YearMin \/ y > YearMax) /\ ~ (m < 1 \/ m > MonthMax + 1)
        /\ ~ (d < 1 \/ d > DayMax)

is_valid_date(y, m, d) ==
    IF y < YearMin \/ y > YearMax THEN FALSE
    ELSE IF m < 1 \/ m > MonthMax THEN FALSE
    ELSE IF d < 1 \/ d > DayMax THEN FALSE
    ELSE TRUE

(***************************************************************************)
(* datetime(year, month, day): the constructor checks the calendar and     *)
(* raises ValueError for a day the month does not have.                    *)
(***************************************************************************)
IsLeap(y) == (y % 4 = 0 /\ y % 100 # 0) \/ (y % 400 = 0)

DaysInMonth(y, m) ==
    IF m \in {1, 3, 5, 7, 8, 10, 12} THEN 31
    ELSE IF m \in {4, 6, 9, 11} THEN 30
    ELSE IF IsLeap(y) THEN 29 ELSE 28

IsCalendarDate(y, m, d) ==
    /\ y \in 1..9999
    /\ m \in 1..12
    /\ d \in 1..DaysInMonth(y, m)

NoDate == [kind |-> "None", year |-> 0, month |-> 0, day |-> 0]
RaisedValueError == [kind |-> "ValueError", year |-> 0, month |-> 0, day |-> 0]
Pending == [kind |-> "pending", year |-> 0, month |-> 0, day |-> 0]
Date(y, m, d) == [kind |-> "date", year |-> y, month |-> m, day |-> d]

Datetime(y, m, d) ==
    IF IsCalendarDate(y, m, d) THEN Date(y, m, d) ELSE RaisedValueError

(***************************************************************************)
(* extract_date_from_filename of the age driver.                           *)
(***************************************************************************)
\* Method 2 of the age driver: the leftmost year+MMDD run, if any.
age_contiguous(name) ==
    LET j == SearchContiguous(name)
    IN  IF j = 0 THEN NoDate
        ELSE LET year  == ToInt(SubSeq(name, j, j + 3))
                 month == ToInt(SubSeq(name, j + 4, j + 5))
                 day   == ToInt(SubSeq(name, j + 6, j + 7))
             IN  IF is_valid_date(year, month, day)
                 THEN Datetime(year, month, day)
                 ELSE NoDate

age_extract_no_fallthrough(fname) ==
    LET name == splitext_root(fname)
        i    == SearchDelimited(name)
    IN  IF i # 0
        THEN LET year  == ToInt(SubSeq(name, i, i + 3))
                 month == ToInt(SubSeq(name, i + 5, i + 6))
                 day   == ToInt(SubSeq(name, i + 8, i + 9))
             IN  IF is_valid_date(year, month, day)
                 THEN Datetime(year, month, day)
                 ELSE NoDate
        ELSE age_contiguous(name)

age_extract_date_from_filename(fname) ==
    LET name == splitext_root(fname)
        i    == SearchDelimited(name)
        year  == ToInt(SubSeq(name, i, i + 3))
        month == ToInt(SubSeq(name, i + 5, i + 6))
        day   == ToInt(SubSeq(name, i + 8, i + 9))
    IN  IF i # 0 /\ is_valid_date(year, month, day)
        THEN Datetime(year, month, day)
        ELSE age_contiguous(name)

(***************************************************************************)
(* extract_date_from_filename of the timestamp driver: the matched text    *)
(* itself, joined by dots.                                                 *)
(***************************************************************************)
NoString == [kind |-> "None", value |-> <<>>]
PendingString == [kind |-> "pending", value |-> <<>>]
Str(s) == [kind |-> "str", value |-> s]

ts_contiguous(name) ==
    LET j == SearchContiguous(name)
    IN  IF j = 0 THEN NoString
        ELSE LET year  == SubSeq(name, j, j + 3)
                 month == SubSeq(name, j + 4, j + 5)
                 day   == SubSeq(name, j + 6, j + 7)
             IN  IF is_valid_date(ToInt(year), ToInt(month), ToInt(day))
                 THEN Str(year \o <<".">> \o month \o <<".">> \o day)
                 ELSE NoString

ts_extract_no_fallthrough(fname) ==
    LET name == splitext_root(fname)
        i    == SearchDelimited(name)
    IN  IF i # 0
        THEN LET year  == SubSeq(name, i, i + 3)
                 month == SubSeq(name, i + 5, i + 6)
                 day   == SubSeq(name, i + 8, i + 9)
             IN  IF is_valid_date(ToInt(year), ToInt(month), ToInt(day))
                 THEN Str(year \o <<".">> \o month \o <<".">> \o day)
                 ELSE NoString
        ELSE ts_contiguous(name)

ts_extract_date_from_filename(fname) ==
    LET name == splitext_root(fname)
        i    == SearchDelimited(name)
        year  == SubSeq(name, i, i + 3)
        month == SubSeq(name, i + 5, i + 6)
        day   == SubSeq(name, i + 8, i + 9)
    IN  IF i # 0 /\ is_valid_date(ToInt(year), ToInt(month), ToInt(day))
        THEN Str(year \o <<".">> \o month \o <<".">> \o day)
        ELSE ts_contiguous(name)

(***************************************************************************)
(* The filenames the extractors are run on: up to MaxTokens pieces, each a *)
(* date-like run or a single character, followed by an extension or none.  *)
(***************************************************************************)
MaxTokens == 3

TokDelimited         == <<"2", "0", "2", "5", ".", "0", "9", ".", "0", "4">>
TokDelimitedMixed    == <<"2", "0", "2", "5", "-", "0", "4", "_", "3", "1">>
TokDelimitedMonth13  == <<"2", "0", "2", "5", ".", "1", "3", ".", "0", "1">>
TokDelimitedDay32    == <<"2", "0", "2", "6", "_", "0", "2", "_", "3", "2">>
TokDelimitedYear1999 == <<"1", "9", "9", "9", "-", "1", "2", "-", "3", "1">>
TokDelimitedArabic   == <<"2", "0", "2", "4", ".", "0", "U+0664", ".", "0", "1">>
TokContiguous        == <<"2", "0", "2", "5", "0", "9", "0", "4">>
TokContiguousFeb30   == <<"2", "0", "2", "5", "0", "2", "3", "0">>
TokContiguousDay00   == <<"2", "0", "2", "7", "1", "2", "0", "0">>

Tokens ==
    { TokDelimited, TokDelimitedMixed, TokDelimitedMonth13, TokDelimitedDay32,
      TokDelimitedYear1999, TokDelimitedArabic, TokContiguous,
      TokContiguousFeb30, TokContiguousDay00,
      <<"a">>, <<".">>, <<"2">> }

Extensions == { <<>>, <<".", "j", "p", "g">> }

RECURSIVE Flatten(_)
Flatten(ts) == IF ts = <<>> THEN <<>> ELSE Head(ts) \o Flatten(Tail(ts))

TokenLists == UNION { [1..n -> Tokens] : n \in 0..MaxTokens }

Filenames == { Flatten(ts) \o e : ts \in TokenLists, e \in Extensions }

(***************************************************************************)
(* Specification of the extractors: a filename is drawn, and each driver   *)
(* runs its extract_date_from_filename on it.                              *)
(***************************************************************************)
NoAge == [branch |-> "pending", days_before |-> 0, total_months |-> 0,
          days |-> 0, label |-> <<>>]

IdleAge ==
    /\ photo_date = NoDate
    /\ age = NoAge
    /\ later_date = NoDate
    /\ later_age = NoAge

IdleBatch ==
    /\ driver = "none"
    /\ image_files = <<>>
    /\ idx = 0
    /\ visits = <<>>
    /\ success_count = 0
    /\ skip_count = 0
    /\ pc = "idle"

IdleExtract ==
    /\ filename = <<>>
    /\ age_result = Pending
    /\ ts_result = PendingString

Init ==
    /\ filename \in Filenames
    /\ age_result = Pending
    /\ ts_result = PendingString
    /\ IdleAge
    /\ IdleBatch

AgeExtract ==
    /\ age_result = Pending
    /\ age_result' = age_extract_date_from_filename(filename)
    /\ UNCHANGED <<filename, ts_result, ageVars, batchVars>>

TimestampExtract ==
    /\ ts_result = PendingString
    /\ ts_result' = ts_extract_date_from_filename(filename)
    /\ UNCHANGED <<filename, age_result, ageVars, batchVars>>

Next == AgeExtract \/ TimestampExtract

Spec == Init /\ [][Next]_vars

(***************************************************************************)
(* datetime arithmetic the age driver relies on: comparison of two dates   *)
(* and (a - b).days, the difference of the proleptic Gregorian ordinals.   *)
(***************************************************************************)
BIRTH_DATE == Date(2025, 9, 2)

\* a < b for two datetimes at midnight
DateLess(a, b) ==
    \/ a.year < b.year
    \/ a.year = b.year /\ a.month < b.month
    \/ a.year = b.year /\ a.month = b.month /\ a.day < b.day

\* days before January 1st of the year
DaysBeforeYear(year) ==
    LET y == year - 1
    IN  y * 365 + (y \div 4) - (y \div 100) + (y \div 400)

\* days of the year before the first day of the month
RECURSIVE DaysBeforeMonth(_, _)
DaysBeforeMonth(year, month) ==
    IF month = 1 THEN 0
    ELSE DaysBeforeMonth(year, month - 1) + DaysInMonth(year, month - 1)

\* date.toordinal()
ToOrdinal(d) == DaysBeforeYear(d.year) + DaysBeforeMonth(d.year, d.month) + d.day

(***************************************************************************)
(* calculate_age                                                           *)
(***************************************************************************)
is_before_birth_inclusive(d) == ~ DateLess(BIRTH_DATE, d)

\* the test photo_date < BIRTH_DATE
is_before_birth(d) == DateLess(d, BIRTH_DATE)

days_in_prev_month_february_28(prev_year, prev_month) ==
    IF prev_month \in {1, 3, 5, 7, 8, 10, 12} THEN 31
    ELSE IF prev_month \in {4, 6, 9, 11} THEN 30
    ELSE 28

\* the 31/30/28-or-29 table of the day borrowing
days_in_prev_month(prev_year, prev_month) ==
    IF prev_month \in {1, 3, 5, 7, 8, 10, 12} THEN 31
    ELSE IF prev_month \in {4, 6, 9, 11} THEN 30
    ELSE IF (prev_year % 4 = 0 /\ prev_year % 100 # 0) \/ (prev_year % 400 = 0)
         THEN 29
         ELSE 28

day_borrow_on_zero(d, months, days) ==
    IF days <= 0
    THEN LET prev_month == IF d.month = 1 THEN 12 ELSE d.month - 1
             prev_year  == IF d.month = 1 THEN d.year - 1 ELSE d.year
         IN  <<months - 1, days_in_prev_month(prev_year, prev_month) + days>>
    ELSE <<months, days>>

\* day borrowing: <<months, days>> after "if days < 0"
day_borrow(d, months, days) ==
    IF days < 0
    THEN LET prev_month == IF d.month = 1 THEN 12 ELSE d.month - 1
             prev_year  == IF d.month = 1 THEN d.year - 1 ELSE d.year
         IN  <<months - 1, days_in_prev_month(prev_year, prev_month) + days>>
    ELSE <<months, days>>

month_borrow_keeps_year(years, months) ==
    IF months < 0 THEN <<years, months + 12>> ELSE <<years, months>>

\* month borrowing: <<years, months>> after "if months < 0"
month_borrow(years, months) ==
    IF months < 0 THEN <<years - 1, months + 12>> ELSE <<years, months>>

BeforeBirthPrefix == <<"U+8DDD", "U+79BB", "U+51FA", "U+751F">>
DayChar == <<"U+5929">>
MonthChars == <<"U+4E2A", "U+6708">>

\* calculate_age with its locals: the branch taken, days_before or
\* total_months and days, and the string returned.
CalcAge(d) ==
    IF is_before_birth(d)
    THEN LET days_before == ToOrdinal(BIRTH_DATE) - ToOrdinal(d)
         IN  [branch |-> "before", days_before |-> days_before,
              total_months |-> 0, days |-> 0,
              label |-> BeforeBirthPrefix \o ToStr(days_before) \o DayChar]
    ELSE LET years0  == d.year - BIRTH_DATE.year
             months0 == d.month - BIRTH_DATE.month
             days0   == d.day - BIRTH_DATE.day
             db      == day_borrow(d, months0, days0)
             mb      == month_borrow(years0, db[1])
             days    == db[2]
             total_months == mb[1] * 12 + mb[2]
         IN  [branch |-> "after", days_before |-> 0,
              total_months |-> total_months, days |-> days,
              label |-> IF total_months = 0 THEN ToStr(days) \o DayChar
                        ELSE IF days = 0 THEN ToStr(total_months) \o MonthChars
                        ELSE ToStr(total_months) \o MonthChars
                                 \o ToStr(days) \o DayChar]

calculate_age(d) == CalcAge(d).label

(***************************************************************************)
(* Specification of calculate_age: a photo date is drawn from the calendar *)
(* days of the years around the birth year, and calculate_age runs on it.  *)
(***************************************************************************)
YearsBefore == 26
YearsAfter == 75

PhotoDates ==
    { d \in { Date(y, m, dd) : y \in (BIRTH_DATE.year - YearsBefore)..
                                     (BIRTH_DATE.year + YearsAfter),
                               m \in 1..12, dd \in 1..31 } :
        IsCalendarDate(d.year, d.month, d.day) }

InitAge ==
    /\ photo_date \in PhotoDates
    /\ age = NoAge
    /\ later_date = NoDate
    /\ later_age = NoAge
    /\ IdleExtract
    /\ IdleBatch

CalculateAge ==
    /\ photo_date # NoDate
    /\ age = NoAge
    /\ later_date = NoDate
    /\ age' = CalcAge(photo_date)
    /\ UNCHANGED <<photo_date, later_date, later_age, extractVars, batchVars>>

NextAge == CalculateAge

SpecAge == InitAge /\ [][NextAge]_vars

(***************************************************************************)
(* Specification of two photos: an earlier and a later photo date, both on *)
(* or after the birth date, within MonoMonths months of the birth month;   *)
(* calculate_age runs on both.                                             *)
(***************************************************************************)
MonoMonths == 30

MonthIndex(d) == (d.year - BIRTH_DATE.year) * 12 + (d.month - BIRTH_DATE.month)

PairDates ==
    { d \in { Date(y, m, dd) : y \in BIRTH_DATE.year..
                                     (BIRTH_DATE.year + (MonoMonths \div 12) + 1),
                               m \in 1..12, dd \in 1..31 } :
        /\ IsCalendarDate(d.year, d.month, d.day)
        /\ ~ DateLess(d, BIRTH_DATE)
        /\ MonthIndex(d) <= MonoMonths }

InitMono ==
    /\ photo_date \in PairDates
    /\ age = NoAge
    /\ later_date = NoDate
    /\ later_age = NoAge
    /\ IdleExtract
    /\ IdleBatch

CalculateAges ==
    /\ later_date = NoDate
    /\ \E d2 \in PairDates :
          /\ DateLess(photo_date, d2)
          /\ later_date' = d2
          /\ later_age' = CalcAge(d2)
    /\ age' = CalcAge(photo_date)
    /\ UNCHANGED <<photo_date, extractVars, batchVars>>

NextMono == CalculateAges

SpecMono == InitMono /\ [][NextMono]_vars

(***************************************************************************)
(* process_photos of either driver: the for loop over image_files with its *)
(* two counters.  Drawing on the image (add_age_to_image or                *)
(* add_timestamp_to_image) is file and font I/O: it either returns or      *)
(* raises an Exception, which the loop's try/except catches.  The          *)
(* extraction and calculate_age run outside that try.                      *)
(***************************************************************************)
MaxFiles == 3

JpgExt == <<".", "j", "p", "g">>

BatchNames ==
    { TokDelimited \o JpgExt,
      TokDelimitedMixed \o JpgExt,
      <<"I", "M", "G", "_">> \o TokContiguous \o JpgExt,
      <<"a">> \o JpgExt }

Batches == UNION { [1..n -> BatchNames] : n \in 0..MaxFiles }

\* what extract_date_from_filename of the running driver does with a name:
\* "None", a value ("date" or "str"), or "ValueError"
extract_outcome(drv, fname) ==
    IF drv = "age" THEN age_extract_date_from_filename(fname).kind
    ELSE ts_extract_date_from_filename(fname).kind

InitBatch ==
    /\ driver \in {"age", "timestamp"}
    /\ image_files \in Batches
    /\ idx = 0
    /\ visits = [i \in 1..Len(image_files) |-> 0]
    /\ success_count = 0
    /\ skip_count = 0
    /\ pc = "start"
    /\ IdleExtract
    /\ IdleAge

\* "if not image_files: ... return": no loop and no summary
NoImages ==
    /\ pc = "start"
    /\ image_files = <<>>
    /\ pc' = "empty"
    /\ UNCHANGED <<driver, image_files, idx, visits, success_count, skip_count,
                   extractVars, ageVars>>

\* success_count = 0; skip_count = 0; the loop starts at the first file
StartLoop ==
    /\ pc = "start"
    /\ image_files # <<>>
    /\ pc' = "loop"
    /\ idx' = 1
    /\ success_count' = 0
    /\ skip_count' = 0
    /\ UNCHANGED <<driver, image_files, visits, extractVars, ageVars>>

AtFile == pc = "loop" /\ idx <= Len(image_files)

\* the extraction returns None: skip_count += 1; continue
SkipFile ==
    /\ AtFile
    /\ extract_outcome(driver, image_files[idx]) = "None"
    /\ visits' = [visits EXCEPT ![idx] = @ + 1]
    /\ skip_count' = skip_count + 1
    /\ idx' = idx + 1
    /\ UNCHANGED <<driver, image_files, success_count, pc, extractVars, ageVars>>

\* the extraction returns a value and the image is written: success_count += 1
StampFile ==
    /\ AtFile
    /\ extract_outcome(driver, image_files[idx]) \in {"date", "str"}
    /\ visits' = [visits EXCEPT ![idx] = @ + 1]
    /\ success_count' = success_count + 1
    /\ idx' = idx + 1
    /\ UNCHANGED <<driver, image_files, skip_count, pc, extractVars, ageVars>>

\* the extraction returns a value and drawing raises: except Exception, logged
StampFails ==
    /\ AtFile
    /\ extract_outcome(driver, image_files[idx]) \in {"date", "str"}
    /\ visits' = [visits EXCEPT ![idx] = @ + 1]
    /\ idx' = idx + 1
    /\ UNCHANGED <<driver, image_files, success_count, skip_count, pc,
                   extractVars, ageVars>>

\* the extraction itself raises: nothing catches it, process_photos ends
ExtractRaises ==
    /\ AtFile
    /\ extract_outcome(driver, image_files[idx]) = "ValueError"
    /\ visits' = [visits EXCEPT ![idx] = @ + 1]
    /\ pc' = "raised"
    /\ UNCHANGED <<driver, image_files, idx, success_count, skip_count,
                   extractVars, ageVars>>

\* the loop is exhausted: the summary is printed
Summary ==
    /\ pc = "loop"
    /\ idx > Len(image_files)
    /\ pc' = "summary"
    /\ UNCHANGED <<driver, image_files, idx, visits, success_count, skip_count,
                   extractVars, ageVars>>

NextBatch ==
    \/ NoImages
    \/ StartLoop
    \/ SkipFile
    \/ StampFile
    \/ StampFails
    \/ ExtractRaises
    \/ Summary

SpecBatch == InitBatch /\ [][NextBatch]_vars

(***************************************************************************)
(* What the claims speak of, read off the state.                           *)
(***************************************************************************)
\* the filename with its extension stripped
Root == splitext_root(filename)

\* year, month and day of the delimited triple that starts at position i
DelimitedTripleAt(s, i) ==
    <<ToInt(SubSeq(s, i, i + 3)), ToInt(SubSeq(s, i + 5, i + 6)),
      ToInt(SubSeq(s, i + 8, i + 9))>>

\* year, month and day of the year+MMDD run that starts at position i
ContiguousTripleAt(s, i) ==
    <<ToInt(SubSeq(s, i, i + 3)), ToInt(SubSeq(s, i + 4, i + 5)),
      ToInt(SubSeq(s, i + 6, i + 7))>>

\* the range validation of the specification
InRange(t) == t[1] \in 2000..2099 /\ t[2] \in 1..12 /\ t[3] \in 1..31

\* start of the leftmost delimited triple of s, 0 if s has none
LeftmostDelimitedIn(s) ==
    LET M == { i \in 1..Len(s) : MatchDelimitedAt(s, i) }
    IN  IF M = {} THEN 0 ELSE CHOOSE i \in M : \A k \in M : i <= k

\* start of the leftmost year+MMDD run of s, 0 if s has none
LeftmostContiguousIn(s) ==
    LET M == { i \in 1..Len(s) : MatchContiguousAt(s, i) }
    IN  IF M = {} THEN 0 ELSE CHOOSE i \in M : \A k \in M : i <= k

\* the text "YYYY.MM.DD" made of the three runs of a delimited triple
DelimitedTextAt(s, i) ==
    SubSeq(s, i, i + 3) \o <<".">> \o SubSeq(s, i + 5, i + 6)
        \o <<".">> \o SubSeq(s, i + 8, i + 9)

\* the text "YYYY.MM.DD" made of the three runs of a year+MMDD run
ContiguousTextAt(s, i) ==
    SubSeq(s, i, i + 3) \o <<".">> \o SubSeq(s, i + 4, i + 5)
        \o <<".">> \o SubSeq(s, i + 6, i + 7)

TripleOfDate(r) == <<r.year, r.month, r.day>>

AgeDone == age_result # Pending
TsDone == ts_result # PendingString

\* the triple a "YYYY.MM.DD" string of the timestamp driver reads as
TripleOfString(v) == DelimitedTripleAt(v, 1)

Pad2(n) == IF n < 10 THEN <<"0">> \o ToStr(n) ELSE ToStr(n)

\* "YYYY.MM.DD" in ASCII digits, month and day zero-padded to two digits
FormatTriple(t) == ToStr(t[1]) \o <<".">> \o Pad2(t[2]) \o <<".">> \o Pad2(t[3])

(***************************************************************************)
(* C1: for every filename, extract_date_from_filename of both drivers ends *)
(* with a date value or null and never raises, also when the matched       *)
(* triple is in range but no calendar day.                                 *)
(* The age driver builds a datetime from the triple, and datetime raises   *)
(* ValueError for 2025-04-31: the statement fails there.                   *)
(***************************************************************************)
C1_NeverRaises ==
    /\ AgeDone => age_result.kind \in {"date", "None"}
    /\ TsDone => ts_result.kind \in {"str", "None"}

(***************************************************************************)
(* C2: every non-null result of either driver's extractor, from either     *)
(* rule, has its year in 2000..2099, its month in 1..12 and its day in     *)
(* 1..31.                                                                  *)
(***************************************************************************)
C2_ResultInRange ==
    /\ age_result.kind = "date" =>
          InRange(TripleOfDate(age_result))
    /\ ts_result.kind = "str" =>
          /\ Len(ts_result.value) = 10
          /\ InRange(TripleOfString(ts_result.value))

\* both drivers returned a value for a name that also holds a matched
\* delimited triple out of range
C2_Witness ==
    /\ age_result.kind = "date"
    /\ ts_result.kind = "str"
    /\ LET root == Root
       IN  \E i \in 1..Len(root) :
              MatchDelimitedAt(root, i) /\ ~ InRange(DelimitedTripleAt(root, i))

(***************************************************************************)
(* C3: if the leftmost delimited triple of the name passes the range       *)
(* validation, extract returns exactly that triple, whatever else the name *)
(* contains.                                                               *)
(* Fails in the age driver for a triple that is no calendar day (C1).      *)
(***************************************************************************)
C3_LeftmostDelimitedReturned ==
    LET root == Root
        i    == LeftmostDelimitedIn(root)
    IN  (i # 0 /\ InRange(DelimitedTripleAt(root, i))) =>
            /\ AgeDone =>
                  /\ age_result.kind = "date"
                  /\ TripleOfDate(age_result) = DelimitedTripleAt(root, i)
            /\ TsDone =>
                  /\ ts_result.kind = "str"
                  /\ ts_result.value = DelimitedTextAt(root, i)

(***************************************************************************)
(* C4, as claimed: whenever the name contains a delimited triple, the      *)
(* result never comes from the contiguous rule: with a delimited match     *)
(* that fails the range validation, extract returns no value, even when a  *)
(* valid contiguous date is also present.                                  *)
(***************************************************************************)
C4_InvalidDelimitedYieldsNull ==
    LET root == Root
        i    == LeftmostDelimitedIn(root)
    IN  (i # 0 /\ ~ InRange(DelimitedTripleAt(root, i))) =>
            /\ age_result.kind # "date"
            /\ ts_result.kind # "str"

(***************************************************************************)
(* C4, amended: the contiguous rule is tried whenever the delimited rule   *)
(* returned nothing, also when its leftmost match failed the range         *)
(* validation.  With a leftmost delimited match out of range, extract      *)
(* yields null exactly when the name has no contiguous match or the        *)
(* leftmost one is out of range, and a value it returns is the leftmost    *)
(* contiguous triple.  With a leftmost delimited match in range, extract   *)
(* never yields null and a value it returns is that delimited triple.      *)
(***************************************************************************)
C4_FallsThroughToContiguous ==
    (AgeDone \/ TsDone) =>
    LET root == Root
        i    == LeftmostDelimitedIn(root)
        j    == LeftmostContiguousIn(root)
        ok   == j # 0 /\ InRange(ContiguousTripleAt(root, j))
    IN  /\ (i # 0 /\ ~ InRange(DelimitedTripleAt(root, i))) =>
              /\ AgeDone =>
                    /\ (age_result = NoDate) <=> ~ ok
                    /\ age_result.kind = "date" =>
                          TripleOfDate(age_result) = ContiguousTripleAt(root, j)
              /\ TsDone =>
                    /\ (ts_result = NoString) <=> ~ ok
                    /\ ts_result.kind = "str" =>
                          ts_result.value = ContiguousTextAt(root, j)
        /\ (i # 0 /\ InRange(DelimitedTripleAt(root, i))) =>
              /\ AgeDone =>
                    /\ age_result # NoDate
                    /\ age_result.kind = "date" =>
                          TripleOfDate(age_result) = DelimitedTripleAt(root, i)
              /\ TsDone =>
                    /\ ts_result.kind = "str"
                    /\ ts_result.value = DelimitedTextAt(root, i)

\* a leftmost delimited match out of range, a leftmost contiguous match in
\* range, and both drivers returned the contiguous date
C4_Witness ==
    LET root == Root
        i    == LeftmostDelimitedIn(root)
        j    == LeftmostContiguousIn(root)
    IN  /\ i # 0
        /\ ~ InRange(DelimitedTripleAt(root, i))
        /\ j # 0
        /\ InRange(ContiguousTripleAt(root, j))
        /\ age_result.kind = "date"
        /\ ts_result.kind = "str"

(***************************************************************************)
(* C7: the two extractors agree on every filename: the timestamp driver    *)
(* returns null exactly when the age driver does, and otherwise the string *)
(* "YYYY.MM.DD" of the date the age driver returns.                        *)
(* Fails where the age driver raises (C1), and for a digit outside ASCII,  *)
(* which the timestamp driver copies into its string.                      *)
(***************************************************************************)
C7_DriversAgree ==
    (AgeDone /\ TsDone) =>
        /\ (ts_result = NoString) <=> (age_result = NoDate)
        /\ ts_result # NoString =>
              /\ age_result.kind = "date"
              /\ ts_result.value =
                    FormatTriple(TripleOfDate(age_result))

(***************************************************************************)
(* Calendar arithmetic the age claims are stated in, none of it used by    *)
(* calculate_age.                                                          *)
(***************************************************************************)
\* d1 strictly before d2 on the calendar
Earlier(d1, d2) ==
    d1.year * 10000 + d1.month * 100 + d1.day
        < d2.year * 10000 + d2.month * 100 + d2.day

FirstOfNextMonth(d) ==
    IF d.month = 12 THEN Date(d.year + 1, 1, 1) ELSE Date(d.year, d.month + 1, 1)

NextDay(d) ==
    IF d.day < DaysInMonth(d.year, d.month)
    THEN Date(d.year, d.month, d.day + 1)
    ELSE FirstOfNextMonth(d)

\* the calendar days of d's year up to and including d, counted one by one
DayOfYear(d) ==
    Cardinality({ md \in (1..12) \X (1..31) :
                    /\ md[2] <= DaysInMonth(d.year, md[1])
                    /\ md[1] < d.month \/ (md[1] = d.month /\ md[2] <= d.day) })

\* the calendar days from d1 up to d2 (d1 not after d2): 365 for every year
\* begun in between, one more for each leap year among them
ElapsedDays(d1, d2) ==
    365 * (d2.year - d1.year)
        + Cardinality({ y \in d1.year..(d2.year - 1) : IsLeap(y) })
        + DayOfYear(d2) - DayOfYear(d1)

\* the same day of the month, m months later
AddMonths(d, m) ==
    LET k == (d.month - 1) + m
    IN  Date(d.year + (k \div 12), (k % 12) + 1, d.day)

RECURSIVE AddDays(_, _)
AddDays(d, n) == IF n = 0 THEN d ELSE AddDays(NextDay(d), n - 1)

\* position of the first occurrence of character c in s, 0 if none
IndexOf(s, c) ==
    IF \E i \in 1..Len(s) : s[i] = c
    THEN MinOf({i \in 1..Len(s) : s[i] = c})
    ELSE 0

\* <<months, days>> read back from a label "{m}个月{d}天", "{m}个月" or
\* "{d}天"; a part the label does not show counts as 0
ParseLabel(l) ==
    LET k == IndexOf(l, MonthChars[1])
        rest == IF k = 0 THEN l ELSE SubSeq(l, k + 2, Len(l))
    IN  << IF k = 0 THEN 0 ELSE ToInt(SubSeq(l, 1, k - 1)),
           IF rest = <<>> THEN 0 ELSE ToInt(SubSeq(rest, 1, Len(rest) - 1)) >>

AgeDoneFor(a) == a # NoAge

(***************************************************************************)
(* C5: for every photo date on or after 2025-09-02, after the day and      *)
(* month borrowing total_months >= 0 and 0 <= days < 31.                   *)
(***************************************************************************)
C5_BorrowedInRange ==
    (AgeDoneFor(age) /\ ~ Earlier(photo_date, BIRTH_DATE)) =>
        /\ age.branch = "after"
        /\ age.total_months >= 0
        /\ age.days >= 0
        /\ age.days < 31

\* a first of March after the birth: both borrowings acted, from a February
C5_Witness ==
    /\ age.branch = "after"
    /\ photo_date.month = 3
    /\ photo_date.day = 1
    /\ age.days = 27

(***************************************************************************)
(* C6: calculate_age returns the before-birth label exactly when the photo *)
(* date is strictly before 2025-09-02, and then its number is the count of *)
(* elapsed calendar days up to the birth date (at least 1, leap days       *)
(* counted); from the birth date on it returns a months/days label.        *)
(***************************************************************************)
C6_BeforeBirthLabel ==
    AgeDoneFor(age) =>
        /\ (age.branch = "before") <=> Earlier(photo_date, BIRTH_DATE)
        /\ age.branch = "before" =>
              /\ ElapsedDays(photo_date, BIRTH_DATE) >= 1
              /\ age.label = BeforeBirthPrefix
                                \o ToStr(ElapsedDays(photo_date, BIRTH_DATE))
                                \o DayChar
        /\ age.branch = "after" =>
              /\ age.label[1] \in AsciiDigits
              /\ age.label[Len(age.label)] \in {DayChar[1], MonthChars[2]}

\* the day before a leap day: 552 days to the birth date
C6_Witness ==
    /\ photo_date = Date(2024, 2, 28)
    /\ age.label = BeforeBirthPrefix \o <<"5", "5", "2">> \o DayChar

(***************************************************************************)
(* C9: for every photo date on or after 2025-09-02, the birth date         *)
(* advanced by the label's months to the same day of the month and then by *)
(* the label's days is the photo date; a photo on day 2 of the k-th month  *)
(* after the birth month (k >= 1) is labelled exactly "{k}个月".           *)
(***************************************************************************)
C9_RoundTrip ==
    (AgeDoneFor(age) /\ ~ Earlier(photo_date, BIRTH_DATE)) =>
        /\ AddDays(AddMonths(BIRTH_DATE, ParseLabel(age.label)[1]),
                   ParseLabel(age.label)[2]) = photo_date
        /\ (photo_date.day = 2 /\ MonthIndex(photo_date) >= 1) =>
              age.label = ToStr(MonthIndex(photo_date)) \o MonthChars

\* 2028-03-01, after a leap February: "29个月28天"
C9_Witness ==
    /\ photo_date = Date(2028, 3, 1)
    /\ age.label = <<"2", "9">> \o MonthChars \o <<"2", "8">> \o DayChar

(***************************************************************************)
(* C10: for two photo dates d1 < d2, both on or after 2025-09-02, the pair *)
(* (total_months, days) of d1 is lexicographically strictly smaller than   *)
(* that of d2, and the two labels differ.                                  *)
(***************************************************************************)
C10_StrictlyMonotonic ==
    (AgeDoneFor(age) /\ AgeDoneFor(later_age) /\ Earlier(photo_date, later_date)
        /\ ~ Earlier(photo_date, BIRTH_DATE)) =>
        /\ \/ age.total_months < later_age.total_months
           \/ /\ age.total_months = later_age.total_months
              /\ age.days < later_age.days
        /\ age.label # later_age.label

\* a leap day and the day after it
C10_Witness ==
    /\ photo_date = Date(2028, 2, 29)
    /\ later_date = Date(2028, 3, 1)
    /\ AgeDoneFor(age)
    /\ later_age.total_months = 29
    /\ later_age.days = 28

(***************************************************************************)
(* C8: in process_photos of both drivers a failure on one file never       *)
(* aborts the batch: the loop visits every file exactly once, reaches its  *)
(* summary, and ends with success_count + skip_count <= number of files,   *)
(* skip_count being the number of files whose extraction returned null.    *)
(* Fails in the age driver, whose extraction raises outside the try (C1).  *)
(***************************************************************************)
C8_BatchNeverAborts ==
    /\ pc # "raised"
    /\ pc = "summary" =>
          /\ \A i \in 1..Len(image_files) : visits[i] = 1
          /\ success_count + skip_count <= Len(image_files)
          /\ skip_count = Cardinality({ i \in 1..Len(image_files) :
                              extract_outcome(driver, image_files[i]) = "None" })

====
